---------------------------- MODULE Spec2Model ----------------------------
(***************************************************************************)
(* Model of src/maincode.py: the RSI estimator (calculate_rsi), the signal *)
(* classifier (get_rsi_signal), the recommendation aggregator              *)
(* (get_overall_signal) and the refresh orchestrator (update_data) with    *)
(* its triggers (the APScheduler jobs and the /update route) and its       *)
(* reader (the / route).                                                   *)
(*                                                                         *)
(* Floats are IEEE 754 doubles, computed operation by operation as numpy   *)
(* and Python compute them.  The closes a provider serves are whole        *)
(* numbers, tenths or missing.                                             *)
(***************************************************************************)
EXTENDS Integers, Sequences, FiniteSets, TLC

VARIABLES
    latest_data,  \* the global Snapshot dict (maincode.py:172)
    clock,        \* index into TimeLine: what datetime.now() returns
    market,       \* index into Markets: what the data provider holds now
    pc,           \* per trigger thread: position inside update_data
    inv,          \* per trigger thread: id of the invocation it runs (0: none)
    data,         \* per trigger thread: daily_data, weekly_data, monthly_data
    nextInv,      \* number of update_data invocations started so far
    fired,        \* the cron jobs that have fired at the current instant
    started,      \* the one-shot initial_update job has been run
    busyTicks,    \* instants that have passed while an invocation was running
    sent,         \* the calls of bot.send_message so far: who, what, when
    checkedAt,    \* per trigger thread: clock index of its is_market_open()
    locals,       \* per trigger thread: further locals of its update_data call
    returned,     \* what the update_data call that returned last returned
    rsiIn,        \* the calculate_rsi call under study: its arguments
    rsiOut,       \* the calculate_rsi call under study: its result
    sigIn,        \* the get_overall_signal call under study: its arguments
    sigOut        \* the get_overall_signal call under study: its result

vars == <<latest_data, clock, market, pc, inv, data, nextInv, fired, started,
          busyTicks, sent, checkedAt, locals, returned, rsiIn, rsiOut, sigIn,
          sigOut>>

mainVars == <<latest_data, clock, market, pc, inv, data, nextInv, fired,
              started, busyTicks, sent, checkedAt, locals, returned>>

fnVars == <<rsiIn, rsiOut, sigIn, sigOut>>

---------------------------------------------------------------------------
(* Bounds of the model.                                                    *)

MaxInvocations == 2

MaxBusyTicks == 1

MaxLen == 3

---------------------------------------------------------------------------
(* The values a provider serves and the decimal literals of the source, as *)
(* exact fractions n/d; d = 0 stands for a missing value (NaN).            *)

Abs(x) == IF x < 0 THEN -x ELSE x

NaN == [n |-> 0, d |-> 0]

IsNaN(x) == x.d = 0

R(k) == [n |-> k, d |-> 1]

\* Comparison of two stated values; with NaN it is False, as in IEEE 754.
RLess(a, b) == ~IsNaN(a) /\ ~IsNaN(b) /\ a.n * b.d < b.n * a.d

RGreater(a, b) == RLess(b, a)

---------------------------------------------------------------------------
(* Float arithmetic: IEEE 754 binary64, every operation rounded to the     *)
(* nearest double, ties to even, as numpy and Python compute.  Overflow    *)
(* and subnormal results do not arise for prices and RSI readings.         *)

\* Natural numbers of any size: their digits in base 2^15, least
\* significant first, without leading zeros.
LimbBits == 15

Base == 2 ^ LimbBits

Limb(a, i) == IF i >= 1 /\ i <= Len(a) THEN a[i] ELSE 0

RECURSIVE LTrim(_)
LTrim(a) == IF a = << >> THEN a
            ELSE IF a[Len(a)] # 0 THEN a
            ELSE LTrim(SubSeq(a, 1, Len(a) - 1))

RECURSIVE LFromInt(_)
LFromInt(n) == IF n = 0 THEN << >> ELSE <<n % Base>> \o LFromInt(n \div Base)

RECURSIVE LToInt(_)
LToInt(a) == IF a = << >> THEN 0 ELSE a[1] + Base * LToInt(Tail(a))

RECURSIVE LAddFrom(_, _, _, _)
LAddFrom(a, b, i, c) ==
    IF i > Len(a) /\ i > Len(b) THEN (IF c = 0 THEN << >> ELSE <<c>>)
    ELSE LET s == Limb(a, i) + Limb(b, i) + c
         IN  <<s % Base>> \o LAddFrom(a, b, i + 1, s \div Base)

LAdd(a, b) == LAddFrom(a, b, 1, 0)

RECURSIVE LSubFrom(_, _, _, _)
LSubFrom(a, b, i, c) ==
    IF i > Len(a) THEN << >>
    ELSE LET s == Limb(a, i) - Limb(b, i) - c
         IN  <<s % Base>> \o LSubFrom(a, b, i + 1, IF s < 0 THEN 1 ELSE 0)

\* a - b for a >= b
LSub(a, b) == LTrim(LSubFrom(a, b, 1, 0))

RECURSIVE LCmpFrom(_, _, _)
LCmpFrom(a, b, i) ==
    IF i = 0 THEN 0
    ELSE IF a[i] # b[i] THEN (IF a[i] < b[i] THEN -1 ELSE 1)
    ELSE LCmpFrom(a, b, i - 1)

\* -1, 0 or 1 as a < b, a = b or a > b
LCmp(a, b) ==
    IF Len(a) # Len(b) THEN (IF Len(a) < Len(b) THEN -1 ELSE 1)
    ELSE LCmpFrom(a, b, Len(a))

\* a * k + c for k < Base, from digit i on
RECURSIVE LMulSmallFrom(_, _, _, _)
LMulSmallFrom(a, k, i, c) ==
    IF i > Len(a) THEN (IF c = 0 THEN << >> ELSE <<c>>)
    ELSE LET s == a[i] * k + c
         IN  <<s % Base>> \o LMulSmallFrom(a, k, i + 1, s \div Base)

LMulSmall(a, k) == IF k = 0 THEN << >> ELSE LMulSmallFrom(a, k, 1, 0)

\* a * 2^k
LShl(a, k) ==
    IF a = << >> THEN a
    ELSE [i \in 1..(k \div LimbBits) |-> 0] \o LMulSmall(a, 2 ^ (k % LimbBits))

\* floor(a / k) for k < Base, from digit i down with remainder c above it
RECURSIVE LDivSmallFrom(_, _, _, _)
LDivSmallFrom(a, k, i, c) ==
    IF i = 0 THEN << >>
    ELSE LET s == c * Base + a[i]
         IN  LDivSmallFrom(a, k, i - 1, s % k) \o <<s \div k>>

\* floor(a / 2^k)
LShr(a, k) ==
    LET top == SubSeq(a, (k \div LimbBits) + 1, Len(a))
    IN  LTrim(LDivSmallFrom(top, 2 ^ (k % LimbBits), Len(top), 0))

\* a mod 2^k
LLow(a, k) == LSub(a, LShl(LShr(a, k), k))

RECURSIVE LMulFrom(_, _, _)
LMulFrom(a, b, i) ==
    IF i > Len(b) THEN << >>
    ELSE LET rest == LMulFrom(a, b, i + 1)
         IN  IF b[i] = 0 \/ a = << >> THEN rest
             ELSE LAdd([j \in 1..(i - 1) |-> 0] \o LMulSmall(a, b[i]), rest)

LMul(a, b) == LMulFrom(a, b, 1)

RECURSIVE SmallBitLen(_)
SmallBitLen(n) == IF n = 0 THEN 0 ELSE 1 + SmallBitLen(n \div 2)

BitLen(a) == IF a = << >> THEN 0
             ELSE LimbBits * (Len(a) - 1) + SmallBitLen(a[Len(a)])

\* Long division, one bit of the dividend at a time: the remainder takes
\* the bit, the quotient gets the next bit.
DivBit(q, r1, d) ==
    IF LCmp(r1, d) >= 0
    THEN [q |-> LMulSmallFrom(q, 2, 1, 1), r |-> LSub(r1, d)]
    ELSE [q |-> LMulSmallFrom(q, 2, 1, 0), r |-> r1]

DivStep(st, bit, d) == DivBit(st.q, LMulSmallFrom(st.r, 2, 1, bit), d)

\* Bit i of a, counted from 1 at the least significant end.
BitAt(a, i) ==
    (Limb(a, ((i - 1) \div LimbBits) + 1) \div (2 ^ ((i - 1) % LimbBits))) % 2

\* The division steps for bits hi down to lo of n, by halving the range;
\* after every step the remainder is below the divisor.
RECURSIVE DivRange(_, _, _, _, _)
RECURSIVE DivLower(_, _, _, _, _)
DivRange(st, n, d, hi, lo) ==
    IF hi < lo THEN st
    ELSE IF hi = lo THEN DivStep(st, BitAt(n, hi), d)
    ELSE DivLower(DivRange(st, n, d, hi, (hi + lo + 1) \div 2), n, d,
                  ((hi + lo + 1) \div 2) - 1, lo)

\* The steps for the lower half of a range, from the state `upper` the
\* upper half has left.
DivLower(upper, n, d, hi, lo) ==
    IF LCmp(upper.r, d) < 0 THEN DivRange(upper, n, d, hi, lo) ELSE upper

\* Quotient and remainder of n by d, d > 0.  The leading bits of n that
\* cannot reach d go into the remainder at once.
LDivFrom(n, d, rest) ==
    DivRange([q |-> << >>, r |-> LShr(n, rest)], n, d, rest, 1)

LDivMod(n, d) ==
    LDivFrom(n, d, IF BitLen(n) < BitLen(d) THEN 0
                   ELSE BitLen(n) - BitLen(d) + 1)

\* A double: (-1)^neg * m * 2^e with m of exactly 53 bits, or a zero, or
\* NaN.
Mantissa == 53

FNaN == [k |-> "nan", neg |-> FALSE, m |-> << >>, e |-> 0]

FZero == [k |-> "num", neg |-> FALSE, m |-> << >>, e |-> 0]

FIsNaN(x) == x.k = "nan"

One == <<1>>

\* floor and remainder of n / (d * 2^s)
\* a * 2^k for k > 0, a otherwise
ShlIf(a, k) == IF k > 0 THEN LShl(a, k) ELSE a

QuotientOf(qr, ds, s) == [q |-> qr.q, r |-> qr.r, d |-> ds, s |-> s]

\* floor and remainder of n / (d * 2^s)
Quotient(n, d, s) ==
    QuotientOf(IF d = One
               THEN [q |-> IF s > 0 THEN LShr(n, s) ELSE ShlIf(n, -s),
                     r |-> IF s > 0 THEN LLow(n, s) ELSE << >>]
               ELSE LDivMod(ShlIf(n, -s), ShlIf(d, s)),
               ShlIf(d, s), s)

\* Whether the quotient t is rounded up: to nearest, ties to even.
RoundsUp(t, c) == c > 0 \/ (c = 0 /\ Limb(t.q, 1) % 2 = 1)

\* The double of mantissa m1, which rounding up may have taken to 2^53.
Normalised(neg, m1, e) ==
    IF BitLen(m1) > Mantissa
    THEN [k |-> "num", neg |-> neg, m |-> LShl(One, Mantissa - 1), e |-> e + 1]
    ELSE [k |-> "num", neg |-> neg, m |-> m1, e |-> e]

RoundQuotient(neg, t, e) ==
    Normalised(neg,
               IF RoundsUp(t, LCmp(LShl(t.r, 1), t.d)) THEN LAdd(t.q, One)
               ELSE t.q,
               t.s + e)

\* The quotient has 53 or 54 bits at shift s: 53 are kept.
RoundAt(neg, n, d, e, s, t0) ==
    IF BitLen(t0.q) > Mantissa
    THEN RoundQuotient(neg, Quotient(n, d, s + 1), e)
    ELSE RoundQuotient(neg, t0, e)

RoundFrom(neg, n, d, e, s) == RoundAt(neg, n, d, e, s, Quotient(n, d, s))

\* The double nearest to (-1)^neg * (n / d) * 2^e.
Round(neg, n, d, e) ==
    IF n = << >> THEN [FZero EXCEPT !.neg = neg]
    ELSE RoundFrom(neg, n, d, e, BitLen(n) - BitLen(d) - Mantissa)

\* The double a decimal literal or an integer denotes; r is [n, d].
Float(r) == IF r.d = 0 THEN FNaN
            ELSE Round(r.n < 0, LFromInt(Abs(r.n)), LFromInt(r.d), 0)

FNeg(a) == IF FIsNaN(a) THEN a ELSE [a EXCEPT !.neg = ~a.neg]

\* The magnitudes of a and b as integers over the common unit 2^e.
AlignedAt(a, b, e0) ==
    [a |-> LShl(a.m, a.e - e0), b |-> LShl(b.m, b.e - e0), e |-> e0]

Aligned(a, b) ==
    AlignedAt(a, b, IF a.m = << >> THEN b.e ELSE IF b.m = << >> THEN a.e
                    ELSE IF a.e < b.e THEN a.e ELSE b.e)

AddAligned(aneg, bneg, al) ==
    IF aneg = bneg THEN Round(aneg, LAdd(al.a, al.b), One, al.e)
    ELSE IF al.a = al.b THEN FZero
    ELSE IF LCmp(al.a, al.b) > 0
         THEN Round(aneg, LSub(al.a, al.b), One, al.e)
         ELSE Round(bneg, LSub(al.b, al.a), One, al.e)

FAdd(a, b) ==
    IF FIsNaN(a) \/ FIsNaN(b) THEN FNaN
    ELSE AddAligned(a.neg, b.neg, Aligned(a, b))

FSub(a, b) == FAdd(a, FNeg(b))

FMul(a, b) ==
    IF FIsNaN(a) \/ FIsNaN(b) THEN FNaN
    ELSE Round(a.neg # b.neg, LMul(a.m, b.m), One, a.e + b.e)

FDiv(a, b) ==
    IF FIsNaN(a) \/ FIsNaN(b) \/ b.m = << >> THEN FNaN
    ELSE Round(a.neg # b.neg, a.m, b.m, a.e - b.e)

LessAligned(aneg, bneg, al) ==
    IF aneg /\ ~bneg THEN al.a # << >> \/ al.b # << >>
    ELSE IF ~aneg /\ bneg THEN FALSE
    ELSE IF aneg THEN LCmp(al.a, al.b) > 0 ELSE LCmp(al.a, al.b) < 0

FLess(a, b) ==
    /\ ~FIsNaN(a) /\ ~FIsNaN(b)
    /\ LessAligned(a.neg, b.neg, Aligned(a, b))

FGreater(a, b) == FLess(b, a)

\* ==: FNaN equals nothing, and the two zeros are equal.
FEq(a, b) ==
    /\ ~FIsNaN(a) /\ ~FIsNaN(b)
    /\ (a = b \/ (a.m = << >> /\ b.m = << >>))

\* f"{x:.2f}": the exact value of the double rounded to hundredths, ties
\* to even, with the sign Python prints ("-0.00" for a tiny negative value).
\* The hundredths q with the remainder compared to one half (c).
HalfEven(q, c) == IF c > 0 \/ (c = 0 /\ q % 2 = 1) THEN q + 1 ELSE q

\* floor and remainder of n * 2^e
Hundredths(n, e) ==
    IF e >= 0 THEN [q |-> LShl(n, e), r |-> << >>, d |-> One]
    ELSE [q |-> LShr(n, -e), r |-> LLow(n, -e), d |-> LShl(One, -e)]

FormatOf(neg, t) ==
    [neg |-> neg, h |-> HalfEven(LToInt(t.q), LCmp(LShl(t.r, 1), t.d)),
     fmt |-> TRUE]

Format2(x) == FormatOf(x.neg, Hundredths(LMulSmall(x.m, 100), x.e))

\* The doubles of the integer literals of the source.
Fifty == Float(R(50))

Hundred == Float(R(100))

FOne == Float(R(1))

Thirty == Float(R(30))

Seventy == Float(R(70))

---------------------------------------------------------------------------
(* calculate_rsi (maincode.py:190-231)                                     *)

RsiWindow == 14

\* The float64 column pandas holds for a series of closes.
Column(series) == [i \in 1..Len(series) |-> Float(series[i])]

\* data.fillna(method='ffill'): a leading run of NaN stays NaN.
ffill(s) ==
    LET F[i \in 1..Len(s)] == IF FIsNaN(s[i]) /\ i > 1 THEN F[i - 1] ELSE s[i]
    IN  [i \in 1..Len(s) |-> F[i]]

\* data.diff(): the first element has no delta.
diff(s) == [i \in 1..Len(s) |-> IF i = 1 THEN FNaN ELSE FSub(s[i], s[i - 1])]

\* np.where(delta > 0, delta, 0): a NaN delta compares False and becomes 0.
up_values(delta) ==
    [i \in 1..Len(delta) |->
        IF FGreater(delta[i], FZero) THEN delta[i] ELSE FZero]

\* np.where(delta < 0, -delta, 0)
down_values(delta) ==
    [i \in 1..Len(delta) |->
        IF FLess(delta[i], FZero) THEN FNeg(delta[i]) ELSE FZero]

\* Series.rolling(window=window, min_periods=1).mean() (lines 215-216) is
\* pandas' roll_mean: one running sum over the series, from which the value
\* that leaves the window is removed and to which the entering value is
\* added, both by Kahan summation, each with its own compensation term.

\* The first position of the window that ends at position i.
WindowStart(i, window) == IF i - window + 1 < 1 THEN 1 ELSE i - window + 1

\* The state of roll_mean before the first window.
RollStart ==
    [sum_x |-> FZero, nobs |-> 0, neg_ct |-> 0, compensation_add |-> FZero,
     compensation_remove |-> FZero, num_consecutive_same_value |-> 0,
     prev_value |-> FNaN]

\* add_mean after y = val - compensation and t = sum_x + y; val.neg is
\* signbit(val).
KahanAdded(st, val, y, t) ==
    [st EXCEPT !.nobs = @ + 1,
               !.compensation_add = FSub(FSub(t, st.sum_x), y),
               !.sum_x = t,
               !.neg_ct = IF val.neg THEN @ + 1 ELSE @,
               !.num_consecutive_same_value =
                   IF FEq(val, st.prev_value) THEN @ + 1 ELSE 1,
               !.prev_value = val]

\* add_mean: a NaN is not counted.
add_mean(st, val) ==
    IF FIsNaN(val) THEN st
    ELSE KahanAdded(st, val, FSub(val, st.compensation_add),
                    FAdd(st.sum_x, FSub(val, st.compensation_add)))

\* remove_mean after y = -val - compensation and t = sum_x + y.
KahanRemoved(st, val, y, t) ==
    [st EXCEPT !.nobs = @ - 1,
               !.compensation_remove = FSub(FSub(t, st.sum_x), y),
               !.sum_x = t,
               !.neg_ct = IF val.neg THEN @ - 1 ELSE @]

remove_mean(st, val) ==
    IF FIsNaN(val) THEN st
    ELSE KahanRemoved(st, val, FSub(FNeg(val), st.compensation_remove),
                      FAdd(st.sum_x, FSub(FNeg(val), st.compensation_remove)))

\* calc_mean once result = sum_x / nobs: a window of one repeated value
\* gives that value, and a mean on the wrong side of zero gives 0.
MeanRules(st, result) ==
    IF st.num_consecutive_same_value >= st.nobs THEN st.prev_value
    ELSE IF st.neg_ct = 0 /\ FLess(result, FZero) THEN FZero
    ELSE IF st.neg_ct = st.nobs /\ FGreater(result, FZero) THEN FZero
    ELSE result

\* calc_mean with min_periods = 1.
calc_mean(st) ==
    IF st.nobs >= 1 THEN MeanRules(st, FDiv(st.sum_x, Float(R(st.nobs))))
    ELSE FNaN

\* The state for the window that ends at position i, from the state st of
\* the window before: a fresh start for the first window and for windows
\* that share nothing with the one before, otherwise the removal of what
\* has left the window and then the addition of s[i].
Slide(st, s, window, i) ==
    IF i = 1 \/ WindowStart(i, window) >= i
    THEN add_mean([RollStart EXCEPT !.prev_value = s[i]], s[i])
    ELSE add_mean(IF WindowStart(i, window) > WindowStart(i - 1, window)
                  THEN remove_mean(st, s[WindowStart(i - 1, window)])
                  ELSE st,
                  s[i])

RECURSIVE RollFrom(_, _, _, _)
RECURSIVE RollEmit(_, _, _, _)
\* The means from position i on, st being the state before position i.
RollFrom(s, window, i, st) ==
    IF i > Len(s) THEN << >>
    ELSE RollEmit(s, window, i, Slide(st, s, window, i))

RollEmit(s, window, i, st) ==
    <<calc_mean(st)>> \o RollFrom(s, window, i + 1, st)

rolling_mean(s, window) == RollFrom(s, window, 1, RollStart)

\* The literal 0.0001 of lines 219 and 228.
Epsilon == Float([n |-> 1, d |-> 10000])

\* Line 228: rsi = np.where(avg_down == 0.0001, 100, rsi)
AllGainsRule(avg_down, rsi) == IF FEq(avg_down, Epsilon) THEN Hundred ELSE rsi

\* Line 229: rsi = np.where(np.isnan(rsi), 50, rsi)
NanRule(rsi) == IF FIsNaN(rsi) THEN Fifty ELSE rsi

\* Line 219: avg_down = np.where(avg_down == 0, 0.0001, avg_down)
NoZeroRule(avg_down) == IF FEq(avg_down, FZero) THEN Epsilon ELSE avg_down

\* Lines 222 and 225: rs = avg_up / avg_down; rsi = 100 - (100 / (1 + rs))
RsiOfRs(rs) == FSub(Hundred, FDiv(Hundred, FAdd(FOne, rs)))

\* Lines 222-229, element by element.
RsiOfAverages(avg_up, avg_down) ==
    NanRule(AllGainsRule(avg_down, RsiOfRs(FDiv(avg_up, avg_down))))

\* Lines 207-229 from the deltas of line 204.
RsiOfMeans(avg_up, avg_down) ==
    [i \in 1..Len(avg_up) |->
        RsiOfAverages(avg_up[i], NoZeroRule(avg_down[i]))]

RsiOfDelta(delta, window) ==
    RsiOfMeans(rolling_mean(up_values(delta), window),
               rolling_mean(down_values(delta), window))

calculate_rsi(series, window) ==
    RsiOfDelta(diff(ffill(Column(series))), window)

---------------------------------------------------------------------------
(* get_rsi_signal (maincode.py:233-244)                                    *)

get_rsi_signal(rsi_value) ==
    IF FIsNaN(rsi_value) THEN <<"Neutral", "neutral">>
    ELSE IF FLess(rsi_value, Thirty) THEN <<"Buy", "buy">>
    ELSE IF FGreater(rsi_value, Seventy) THEN <<"Sell", "sell">>
    ELSE <<"Neutral", "neutral">>

---------------------------------------------------------------------------
(* get_overall_signal (maincode.py:246-304)                                *)

\* Lines 255-257: -1 for sell, 0 for neutral, 1 for buy.
Score(rsi) == IF FGreater(rsi, Seventy) THEN -1
              ELSE IF FLess(rsi, Thirty) THEN 1 ELSE 0

\* Line 260, in tenths: 10 * (daily*0.5 + weekly*0.3 + monthly*0.2).  For
\* each of the 27 score triples the float sum compares with 0.3, 0 and -0.3
\* exactly as the tenths compare with 3, 0 and -3.
TotalScore10(ds, ws, ms) == 5 * ds + 3 * ws + 2 * ms

\* A variant of the threshold chain whose outer thresholds are inclusive.
SignalOfTotalInclusive(t10) ==
    IF t10 >= 3 THEN
        <<"Strong Buy", "buy", "Most timeframes show oversold conditions.">>
    ELSE IF t10 > 0 THEN
        <<"Buy", "buy", "RSI suggests bullish momentum building.">>
    ELSE IF t10 <= -3 THEN
        <<"Strong Sell", "sell", "Most timeframes show overbought conditions.">>
    ELSE IF t10 < 0 THEN
        <<"Sell", "sell", "RSI suggests bearish momentum building.">>
    ELSE
        <<"Neutral", "neutral",
          "Conflicting signals across timeframes. Consider waiting.">>

\* Lines 263-282: label, CSS class and base sentence from the total score.
SignalOfTotal(t10) ==
    IF t10 > 3 THEN
        <<"Strong Buy", "buy", "Most timeframes show oversold conditions.">>
    ELSE IF t10 > 0 THEN
        <<"Buy", "buy", "RSI suggests bullish momentum building.">>
    ELSE IF t10 < -3 THEN
        <<"Strong Sell", "sell", "Most timeframes show overbought conditions.">>
    ELSE IF t10 < 0 THEN
        <<"Sell", "sell", "RSI suggests bearish momentum building.">>
    ELSE
        <<"Neutral", "neutral",
          "Conflicting signals across timeframes. Consider waiting.">>

\* Lines 285-299: one clause per timeframe whose score is not zero.
TimeframeDetail(name, score) ==
    IF score = 1 THEN << <<name, "RSI indicates oversold conditions">> >>
    ELSE IF score = -1
         THEN << <<name, "RSI indicates overbought conditions">> >>
    ELSE << >>

\* The reason is the base sentence followed by the clauses, which the code
\* joins with ", " and closes with "."; it is kept here as the sequence.
SignalOfScores(ds, ws, ms, base) ==
    <<base[1], base[2],
      <<base[3]>> \o TimeframeDetail("Daily", ds)
          \o TimeframeDetail("Weekly", ws) \o TimeframeDetail("Monthly", ms)>>

\* Lines 260-304 from the three scores.
OverallOfScores(ds, ws, ms) ==
    SignalOfScores(ds, ws, ms, SignalOfTotal(TotalScore10(ds, ws, ms)))

\* Lines 249-251: 50 if np.isnan(rsi) else rsi
OrFifty(rsi) == IF FIsNaN(rsi) THEN Fifty ELSE rsi

get_overall_signal(daily_rsi, weekly_rsi, monthly_rsi) ==
    OverallOfScores(Score(OrFifty(daily_rsi)), Score(OrFifty(weekly_rsi)),
                    Score(OrFifty(monthly_rsi)))

---------------------------------------------------------------------------
(* safe_get_value (maincode.py:432-438): index is -1 or -2, from the end.  *)

safe_get_value(series, index, default) ==
    LET pos == Len(series) + 1 + index
    IN  IF pos < 1 \/ pos > Len(series) THEN default
        ELSE IF FIsNaN(series[pos]) THEN default ELSE series[pos]

---------------------------------------------------------------------------
(* The Snapshot (maincode.py:172-188, 564-580)                             *)

\* "Not updated yet": every strftime result is a clock index, which is >= 1.
NotUpdatedYet == 0

\* The integer 0 of the initial dict, which renders as "0", not "0.00".
RawZero == [neg |-> FALSE, h |-> 0, fmt |-> FALSE]

Sentinel ==
    [last_updated          |-> NotUpdatedYet,
     current_price         |-> RawZero,
     price_change          |-> RawZero,
     daily_rsi             |-> RawZero,
     weekly_rsi            |-> RawZero,
     monthly_rsi           |-> RawZero,
     daily_signal          |-> "Neutral",
     weekly_signal         |-> "Neutral",
     monthly_signal        |-> "Neutral",
     daily_signal_class    |-> "neutral",
     weekly_signal_class   |-> "neutral",
     monthly_signal_class  |-> "neutral",
     overall_signal        |-> "Neutral",
     overall_signal_class  |-> "neutral",
     recommendation_reason |-> <<"Waiting for first analysis">>]

\* Lines 555-558 (and 462-465): the price and its change in percent.
PriceChangeOf(current_price, prev_close) ==
    [current_price |-> current_price,
     price_change_pct |->
        IF ~FEq(prev_close, FZero)
        THEN FMul(FDiv(FSub(current_price, prev_close), prev_close), Hundred)
        ELSE FZero]

PriceChange(daily) ==
    PriceChangeOf(safe_get_value(Column(daily), -1, Fifty),
                  safe_get_value(Column(daily), -2, Fifty))

\* Lines 545-580: the labels, the recommendation and the dict built from
\* the three readings and the price.
NewDict(daily_rsi_value, weekly_rsi_value, monthly_rsi_value, price, now) ==
    [last_updated          |-> now,
     current_price         |-> Format2(price.current_price),
     price_change          |-> Format2(price.price_change_pct),
     daily_rsi             |-> Format2(daily_rsi_value),
     weekly_rsi            |-> Format2(weekly_rsi_value),
     monthly_rsi           |-> Format2(monthly_rsi_value),
     daily_signal          |-> get_rsi_signal(daily_rsi_value)[1],
     weekly_signal         |-> get_rsi_signal(weekly_rsi_value)[1],
     monthly_signal        |-> get_rsi_signal(monthly_rsi_value)[1],
     daily_signal_class    |-> get_rsi_signal(daily_rsi_value)[2],
     weekly_signal_class   |-> get_rsi_signal(weekly_rsi_value)[2],
     monthly_signal_class  |-> get_rsi_signal(monthly_rsi_value)[2],
     overall_signal        |->
        get_overall_signal(daily_rsi_value, weekly_rsi_value,
                           monthly_rsi_value)[1],
     overall_signal_class  |->
        get_overall_signal(daily_rsi_value, weekly_rsi_value,
                           monthly_rsi_value)[2],
     recommendation_reason |->
        get_overall_signal(daily_rsi_value, weekly_rsi_value,
                           monthly_rsi_value)[3]]

\* Lines 535-580: the dict update_data builds from the three series at `now`.
ComputeSnapshot(daily, weekly, monthly, now) ==
    NewDict(
        safe_get_value(calculate_rsi(daily, RsiWindow), -1, Fifty),
        safe_get_value(calculate_rsi(weekly, RsiWindow), -1, Fifty),
        safe_get_value(calculate_rsi(monthly, RsiWindow), -1, Fifty),
        PriceChange(daily), now)

\* A variant that writes the new values into the existing dict key by key
\* and is observed after the first three keys.
UpdateInPlace(old, new) ==
    [old EXCEPT !.last_updated  = new.last_updated,
                !.current_price = new.current_price,
                !.price_change  = new.price_change]

\* Line 564: the global name is rebound to the finished dict in one store.
ReplaceSnapshot(old, new) == new

---------------------------------------------------------------------------
(* Time: datetime.now() in Asia/Kolkata, to the second.                    *)

\* day 0 is a Monday; weekday() is 0 for Monday ... 6 for Sunday.
T(day, h, m, s) == [day |-> day, h |-> h, m |-> m, s |-> s]

TimeLine ==
    << T(0,  9,  0, 0),    \* Monday, a quarter-hour tick before the open
       T(0,  9, 15, 0),    \* the opening instant
       T(0, 15, 30, 0),    \* the closing instant, a quarter-hour tick
       T(0, 15, 35, 0),    \* the post-close job
       T(5, 12,  0, 0) >>  \* Saturday noon

Now == TimeLine[clock]

weekday(now) == now.day % 7

SecondOfDay(now) == (now.h * 60 + now.m) * 60 + now.s

\* A variant of the market-open test that is closed at 15:30:00 sharp.
is_market_open_until_close(now) ==
    IF weekday(now) >= 5 THEN FALSE
    ELSE LET market_open  == (9 * 60 + 15) * 60
             market_close == (15 * 60 + 30) * 60
         IN  market_open <= SecondOfDay(now) /\ SecondOfDay(now) < market_close

\* is_market_open (lines 409-421).  replace(hour, minute, second) keeps the
\* microsecond of now, so the comparison is one of whole seconds.
is_market_open(now) ==
    IF weekday(now) >= 5 THEN FALSE
    ELSE LET market_open  == (9 * 60 + 15) * 60
             market_close == (15 * 60 + 30) * 60
         IN  market_open <= SecondOfDay(now) /\ SecondOfDay(now) <= market_close

\* Line 602: now.hour == 15 and now.minute >= 30 and now.minute < 45
InSummaryWindow(now) == now.h = 15 /\ now.m >= 30 /\ now.m < 45

\* Line 631: CronTrigger(day_of_week='mon-fri', hour='9-15', minute='*/15')
CronMarketHours(now) ==
    weekday(now) < 5 /\ now.h \in 9..15 /\ now.m % 15 = 0 /\ now.s = 0

\* Line 638: CronTrigger(day_of_week='mon-fri', hour=15, minute=35)
CronDailySummary(now) ==
    weekday(now) < 5 /\ now.h = 15 /\ now.m = 35 /\ now.s = 0

---------------------------------------------------------------------------
(* The data provider behind yf.download: what it would return now for the  *)
(* three intervals, as closing prices.                                     *)

\* Daily closes in tenths, more of them than the RSI window holds.
Tenths(s) == [i \in 1..Len(s) |-> [n |-> s[i], d |-> 10]]

Markets ==
    << [daily   |-> Tenths(<<30, 11, 50, 52, 62, 36, 53, 34, 11, 11, 57, 31,
                             61, 54, 20, 49, 68>>),
        weekly  |-> <<R(100), R(110)>>,
        monthly |-> <<R(100), R(80)>>],
       [daily   |-> <<R(10000), R(3002), R(6001)>>,
        weekly  |-> <<R(50)>>,
        monthly |-> <<NaN, R(70), NaN, R(63)>>],
       [daily   |-> <<R(200), R(200)>>,
        weekly  |-> <<R(10), R(17), R(14)>>,
        monthly |-> <<R(10), R(13), R(6)>>] >>

\* The frames an invocation can hold after its three downloads: each
\* series is the one some state of the provider serves.
Frames ==
    {[daily   |-> Markets[i].daily,
      weekly  |-> Markets[j].weekly,
      monthly |-> Markets[k].monthly] : i, j, k \in 1..Len(Markets)}

\* ComputeSnapshot tabulated over the frames; of its fields only
\* last_updated depends on the instant.
Analysis ==
    [f \in Frames |-> ComputeSnapshot(f.daily, f.weekly, f.monthly, 1)]

SnapshotOf ==
    [f \in Frames, now \in 1..Len(TimeLine) |->
        [Analysis[f] EXCEPT !.last_updated = now]]

---------------------------------------------------------------------------
(* Triggers of update_data (lines 620-648), one thread each.  APScheduler  *)
(* runs every job in its thread pool with max_instances = 1 per job id;    *)
(* force_update runs update_data on the event loop, one request at a time. *)

CronJobs == {"market_hours_update", "daily_summary"}

Threads == CronJobs \cup {"initial_update", "force_update"}

\* The message text of which nothing has been formatted yet.
NoMessage == << >>

\* The locals of a call of update_data that has not yet drawn charts, read
\* the clock for last_updated, assigned latest_data, formatted a live
\* update or heard from the bot, and whose handler of line 609 has caught
\* nothing: e names the statement whose exception that handler holds.
NoLocals ==
    [charts_raised |-> FALSE, stamp |-> 0, assigned |-> FALSE,
     message |-> NoMessage, send_failed |-> FALSE, e |-> "none"]

\* No call of update_data has returned yet.
NotReturned == [line |-> 0, value |-> FALSE]

NoData == [daily |-> << >>, weekly |-> << >>, monthly |-> << >>]

InitMain ==
    /\ latest_data = Sentinel
    /\ clock = 1
    /\ market = 1
    /\ pc = [t \in Threads |-> "idle"]
    /\ inv = [t \in Threads |-> 0]
    /\ data = [t \in Threads |-> NoData]
    /\ nextInv = 0
    /\ fired = {}
    /\ started = FALSE
    /\ busyTicks = 0
    /\ sent = {}
    /\ checkedAt = [t \in Threads |-> 0]
    /\ locals = [t \in Threads |-> NoLocals]
    /\ returned = NotReturned

\* No call of the two pure functions is under study in the life of the
\* service: their argument and result cells are at rest.
NotCalled == [done |-> FALSE, value |-> << >>]

InitFn ==
    /\ rsiIn = [series |-> << >>, window |-> RsiWindow]
    /\ rsiOut = NotCalled
    /\ sigIn = <<NaN, NaN, NaN>>
    /\ sigOut = NotCalled

Init == InitMain /\ InitFn

\* Entry into update_data (lines 494-501) by thread t.
Enter(t) ==
    /\ pc[t] = "idle"
    /\ nextInv < MaxInvocations
    /\ nextInv' = nextInv + 1
    /\ inv' = [inv EXCEPT ![t] = nextInv + 1]
    /\ pc' = [pc EXCEPT ![t] = "download_daily"]
    /\ UNCHANGED <<latest_data, clock, market, data, busyTicks, sent,
                   checkedAt, locals, returned>>

\* The quarter-hour job of lines 629-633 fires at its cron instants.
MarketHoursJob ==
    /\ CronMarketHours(Now)
    /\ "market_hours_update" \notin fired
    /\ fired' = fired \cup {"market_hours_update"}
    /\ Enter("market_hours_update")
    /\ UNCHANGED <<started, fnVars>>

\* The post-close job of lines 636-640.
DailySummaryJob ==
    /\ CronDailySummary(Now)
    /\ "daily_summary" \notin fired
    /\ fired' = fired \cup {"daily_summary"}
    /\ Enter("daily_summary")
    /\ UNCHANGED <<started, fnVars>>

\* The one-shot job of lines 643-648, ten seconds after startup.
InitialUpdateJob ==
    /\ ~started
    /\ started' = TRUE
    /\ Enter("initial_update")
    /\ UNCHANGED <<fired, fnVars>>

\* GET /update (lines 620-623), at any time.
force_update ==
    /\ Enter("force_update")
    /\ UNCHANGED <<fired, started, fnVars>>

\* Return from update_data by the return statement of line `line` with
\* value `value`; the locals of the call are gone.
Return(t, value, line) ==
    /\ pc' = [pc EXCEPT ![t] = "idle"]
    /\ inv' = [inv EXCEPT ![t] = 0]
    /\ data' = [data EXCEPT ![t] = NoData]
    /\ checkedAt' = [checkedAt EXCEPT ![t] = 0]
    /\ locals' = [locals EXCEPT ![t] = NoLocals]
    /\ returned' = [line |-> line, value |-> value]

\* The order of the downloads of lines 504-517.
Intervals == <<"daily", "weekly", "monthly">>

\* The position of update_data before each download.
Downloading == <<"download_daily", "download_weekly", "download_monthly">>

\* One yf.download call and its emptiness test (lines 504-507, 509-512,
\* 514-517): the call raises, returns an empty frame (ValueError is
\* raised) or returns the series the provider holds at that moment.
Download(t, k) ==
    /\ pc[t] = Downloading[k]
    /\ \/ \E failure \in {"raise", "empty"} :
             /\ pc' = [pc EXCEPT ![t] = "except"]
             /\ UNCHANGED data
       \/ /\ pc' = [pc EXCEPT ![t] = IF k < Len(Intervals)
                                     THEN Downloading[k + 1] ELSE "compute"]
          /\ data' = [data EXCEPT ![t][Intervals[k]] =
                                      Markets[market][Intervals[k]]]
    /\ UNCHANGED <<latest_data, clock, market, inv, nextInv, fired, started,
                   busyTicks, sent, checkedAt, locals, returned, fnVars>>

\* A variant of the handler that reports every failed download as an error.
AlwaysReportFailure(ld) == FALSE

\* A variant of the handler that reports success after every failed download.
AlwaysReportSuccess(ld) == TRUE

\* Lines 522-527: False without a previous Snapshot, True with one.
FetchFailureResult(ld) == ld.last_updated # NotUpdatedYet

\* Lines 519-527: the handler of a failed or empty download.
HandleFetchFailure(t) ==
    /\ pc[t] = "except"
    /\ LET kept == FetchFailureResult(latest_data)
       IN  Return(t, kept, IF kept THEN 527 ELSE 523)
    /\ UNCHANGED <<latest_data, clock, market, nextInv, fired, started,
                   busyTicks, sent, fnVars>>

\* Lines 389 and 395: daily_data.index[-30]
ChartLookback == 30

\* generate_charts (lines 306-407) raises when the renderer cannot write an
\* image (lines 329, 407) and when the daily frame has fewer rows than
\* index[-30] needs (line 389).
generate_charts_raises(d, renderer_ok) ==
    ~renderer_ok \/ Len(d.daily) < ChartLookback

\* A variant of the chart block without its handler: what generate_charts
\* raises goes on to the handler of lines 609-614.
ChartsErrorEscapes(charts_raised) == charts_raised

\* Lines 530-533: whether an exception of generate_charts leaves the block.
\* The handler of line 532 catches every Exception and prints it.
ChartsErrorPropagates(charts_raised) == FALSE

\* Lines 529-565: generate_charts returns or raises; update_data goes on
\* either way, computes the readings, the labels and the price change from
\* its three series and, building the dict, reads the clock for
\* last_updated (line 565).  The dict is SnapshotOf[data[t], stamp].
Compute(t) ==
    /\ pc[t] = "compute"
    /\ \E renderer_ok \in BOOLEAN :
          LET charts_raised == generate_charts_raises(data[t], renderer_ok)
          IN  IF ChartsErrorPropagates(charts_raised)
              THEN /\ pc' = [pc EXCEPT ![t] = "error"]
                   /\ locals' = [locals EXCEPT
                                    ![t].charts_raised = TRUE,
                                    ![t].e = "generate_charts"]
              ELSE /\ pc' = [pc EXCEPT ![t] = "assign"]
                   /\ locals' = [locals EXCEPT
                                    ![t].charts_raised = charts_raised,
                                    ![t].stamp = clock]
    /\ UNCHANGED <<latest_data, clock, market, inv, data, nextInv, fired,
                   started, busyTicks, sent, checkedAt, returned, fnVars>>

\* Line 564: the finished dict is bound to the global name.
Assign(t) ==
    /\ pc[t] = "assign"
    /\ latest_data' =
          ReplaceSnapshot(latest_data, SnapshotOf[data[t], locals[t].stamp])
    /\ locals' = [locals EXCEPT ![t].assigned = TRUE]
    /\ pc' = [pc EXCEPT ![t] = "market_check"]
    /\ UNCHANGED <<clock, market, inv, data, nextInv, fired, started, busyTicks,
                   sent, checkedAt, returned, fnVars>>

\* Line 583: if is_market_open()
MarketCheck(t) ==
    /\ pc[t] = "market_check"
    /\ pc' = [pc EXCEPT ![t] = IF is_market_open(Now) THEN "format_live"
                               ELSE "summary_check"]
    /\ checkedAt' = [checkedAt EXCEPT ![t] = clock]
    /\ UNCHANGED <<latest_data, clock, market, inv, data, nextInv, fired,
                   started, busyTicks, sent, locals, returned, fnVars>>

\* The keys of latest_data in the order in which the f-string of lines
\* 584-596 reads them.
MessageOrder ==
    <<"last_updated", "current_price", "price_change", "daily_rsi",
      "daily_signal", "weekly_rsi", "weekly_signal", "monthly_rsi",
      "monthly_signal", "overall_signal", "recommendation_reason">>

\* Lines 584-596: the text of the live update formatted from one dict, as
\* the values it shows.
LiveMessage(ld) == [i \in 1..Len(MessageOrder) |-> ld[MessageOrder[i]]]

\* Lines 584-596: the f-string reads the global dict once per field; this
\* is one of these reads.  After the last one the text is complete.
FormatLive(t) ==
    /\ pc[t] = "format_live"
    /\ LET k == Len(locals[t].message) + 1
       IN  /\ locals' = [locals EXCEPT ![t].message =
                            Append(@, latest_data[MessageOrder[k]])]
           /\ pc' = [pc EXCEPT ![t] = IF k = Len(MessageOrder)
                                      THEN "send_live" ELSE "format_live"]
    /\ UNCHANGED <<latest_data, clock, market, inv, data, nextInv, fired,
                   started, busyTicks, sent, checkedAt, returned, fnVars>>

\* A variant of send_telegram_message that calls the bot a second time when
\* the first call has raised.
SendTwiceOnFailure(delivered) == IF delivered THEN 1 ELSE 2

\* Lines 425-430: the number of bot.send_message calls made for one
\* message; the handler of line 428 prints the error and returns False.
SendAttempts(delivered) == 1

\* Line 426: bot.send_message is called with the text; the bot has the
\* message from now on and the caller waits for the answer.
BotCall(t, kind) ==
    sent' = sent \cup {[inv |-> inv[t], kind |-> kind, day |-> Now.day,
                        attempt |-> 1]}

\* Lines 426-430: bot.send_message returns (delivered) or raises;
\* send_telegram_message returns True or False and makes no further call.
BotAnswer(t, kind, delivered) ==
    sent' = sent \cup {[inv |-> inv[t], kind |-> kind, day |-> Now.day,
                        attempt |-> a] : a \in 2..SendAttempts(delivered)}

\* Line 597: send_telegram_message(message) hands the text to the bot.
SendLive(t) ==
    /\ pc[t] = "send_live"
    /\ BotCall(t, "live")
    /\ pc' = [pc EXCEPT ![t] = "live_wait"]
    /\ UNCHANGED <<latest_data, clock, market, inv, data, nextInv, fired,
                   started, busyTicks, checkedAt, locals, returned, fnVars>>

\* Line 597: send_telegram_message returns; update_data ignores the flag
\* and goes on to line 600.
SendLiveDone(t, delivered) ==
    /\ pc[t] = "live_wait"
    /\ BotAnswer(t, "live", delivered)
    /\ locals' = [locals EXCEPT ![t].send_failed = ~delivered]
    /\ pc' = [pc EXCEPT ![t] = "summary_check"]
    /\ UNCHANGED <<latest_data, clock, market, inv, data, nextInv, fired,
                   started, busyTicks, checkedAt, returned, fnVars>>

\* Line 597 with a bot that delivers.
SendLiveDelivered(t) == SendLiveDone(t, TRUE)

\* Line 597 with a bot that raises.
SendLiveFailed(t) == SendLiveDone(t, FALSE)

\* Lines 600-602 and 607: outside the post-close window, return True.
SummaryCheck(t) ==
    /\ pc[t] = "summary_check"
    /\ IF InSummaryWindow(Now)
       THEN /\ pc' = [pc EXCEPT ![t] = "send_summary"]
            /\ UNCHANGED <<inv, data, checkedAt, locals, returned>>
       ELSE Return(t, TRUE, 607)
    /\ UNCHANGED <<latest_data, clock, market, nextInv, fired, started,
                   busyTicks, sent, fnVars>>

\* Lines 604-605: the end-of-day summary is built from the three series of
\* the call and handed to the bot.
SendSummary(t) ==
    /\ pc[t] = "send_summary"
    /\ BotCall(t, "summary")
    /\ pc' = [pc EXCEPT ![t] = "summary_wait"]
    /\ UNCHANGED <<latest_data, clock, market, inv, data, nextInv, fired,
                   started, busyTicks, checkedAt, locals, returned, fnVars>>

\* Lines 605-607: send_telegram_message returns and update_data returns
\* True.
SendSummaryDone(t, delivered) ==
    /\ pc[t] = "summary_wait"
    /\ BotAnswer(t, "summary", delivered)
    /\ Return(t, TRUE, 607)
    /\ UNCHANGED <<latest_data, clock, market, nextInv, fired, started,
                   busyTicks, fnVars>>

\* Lines 605-607 with a bot that delivers.
SendSummaryDelivered(t) == SendSummaryDone(t, TRUE)

\* Lines 605-607 with a bot that raises.
SendSummaryFailed(t) == SendSummaryDone(t, FALSE)

\* The positions of update_data, inside the try block of lines 498-607 and
\* past the download block (which has its own handler), at which a
\* statement can raise: the computation of lines 535-561, is_market_open
\* (583), the f-string (584-596), the clock of lines 600-601 and
\* generate_daily_summary (604).
InTryBlock ==
    {"compute", "market_check", "format_live", "summary_check", "send_summary"}

\* The statement thread t is at raises an exception no inner handler
\* catches; control goes to the handler of line 609, which binds it to e.
\* When it is the computation of lines 535-561 that raises, generate_charts
\* (line 531) has run before it, and has returned or raised and been caught
\* at line 532.
Raise(t) ==
    /\ pc[t] \in InTryBlock
    /\ pc' = [pc EXCEPT ![t] = "error"]
    /\ \E renderer_ok \in BOOLEAN :
          /\ pc[t] = "compute" =>
                ~ChartsErrorPropagates(
                     generate_charts_raises(data[t], renderer_ok))
          /\ locals' = [locals EXCEPT
                           ![t].charts_raised =
                               IF pc[t] = "compute"
                               THEN generate_charts_raises(data[t], renderer_ok)
                               ELSE @,
                           ![t].e = pc[t]]
    /\ UNCHANGED <<latest_data, clock, market, inv, data, nextInv, fired,
                   started, busyTicks, sent, checkedAt, returned, fnVars>>

\* Lines 609-614: print the error and return False.
HandleError(t) ==
    /\ pc[t] = "error"
    /\ Return(t, FALSE, 614)
    /\ UNCHANGED <<latest_data, clock, market, nextInv, fired, started,
                   busyTicks, sent, fnVars>>

\* read_root (lines 616-618): the template gets the dict the global names
\* at the moment of the request.
read_root == latest_data

Running == {t \in Threads : pc[t] # "idle"}

\* Time passes to the next instant of the time line, where the provider
\* holds other data.  At most MaxBusyTicks instants pass while update_data
\* is running.
Tick ==
    /\ clock < Len(TimeLine)
    /\ Running # {} => busyTicks < MaxBusyTicks
    /\ clock' = clock + 1
    /\ market' = (market % Len(Markets)) + 1
    /\ fired' = {}
    /\ busyTicks' = IF Running # {} THEN busyTicks + 1 ELSE busyTicks
    /\ UNCHANGED <<latest_data, pc, inv, data, nextInv, started, sent,
                   checkedAt, locals, returned, fnVars>>

Next ==
    \/ MarketHoursJob
    \/ DailySummaryJob
    \/ InitialUpdateJob
    \/ force_update
    \/ \E t \in Threads, k \in 1..Len(Intervals) : Download(t, k)
    \/ \E t \in Threads : HandleFetchFailure(t)
    \/ \E t \in Threads : Compute(t)
    \/ \E t \in Threads : Assign(t)
    \/ \E t \in Threads : MarketCheck(t)
    \/ \E t \in Threads : FormatLive(t)
    \/ \E t \in Threads : SendLive(t)
    \/ \E t \in Threads : SendLiveDelivered(t)
    \/ \E t \in Threads : SummaryCheck(t)
    \/ \E t \in Threads : SendSummary(t)
    \/ \E t \in Threads : SendSummaryDelivered(t)
    \/ Tick

\* The service with a bot that delivers and no exception other than those
\* of the downloads and of generate_charts.
Spec == Init /\ [][Next]_vars

\* The service with a bot that may fail and with exceptions that reach the
\* outer handler.
NextFaults ==
    \/ Next
    \/ \E t \in Threads : SendLiveFailed(t)
    \/ \E t \in Threads : SendSummaryFailed(t)
    \/ \E t \in Threads : Raise(t)
    \/ \E t \in Threads : HandleError(t)

SpecFaults == Init /\ [][NextFaults]_vars

---------------------------------------------------------------------------
(* calculate_rsi on its own: every series of at most MaxLen closes drawn   *)
(* from Closes, with the window of the service and a short one.            *)

Closes == {NaN, R(90), R(100), R(110), [n |-> 1001, d |-> 10]}

RECURSIVE SeriesUpTo(_)
SeriesUpTo(n) ==
    IF n = 0 THEN {<< >>}
    ELSE LET shorter == SeriesUpTo(n - 1)
         IN  shorter \cup {Append(s, c) : s \in {x \in shorter : Len(x) = n - 1},
                                          c \in Closes}

Windows == {2, RsiWindow}

InitRsi ==
    /\ InitMain
    /\ rsiIn \in [series : SeriesUpTo(MaxLen), window : Windows]
    /\ rsiOut = NotCalled
    /\ sigIn = <<NaN, NaN, NaN>>
    /\ sigOut = NotCalled

\* The call calculate_rsi(series, window) of lines 190-231.
CallRsi ==
    /\ ~rsiOut.done
    /\ rsiOut' = [done |-> TRUE,
                  value |-> calculate_rsi(rsiIn.series, rsiIn.window)]
    /\ UNCHANGED <<mainVars, rsiIn, sigIn, sigOut>>

NextRsi == CallRsi

SpecRsi == InitRsi /\ [][NextRsi]_vars

---------------------------------------------------------------------------
(* get_overall_signal on its own: every triple of readings drawn from      *)
(* Readings, which holds both thresholds, their neighbours and NaN.        *)

Readings == {NaN, R(0), R(20), R(25), [n |-> 2999, d |-> 100], R(30), R(50),
             R(70), [n |-> 7001, d |-> 100], R(75), R(100)}

InitSignal ==
    /\ InitMain
    /\ rsiIn = [series |-> << >>, window |-> RsiWindow]
    /\ rsiOut = NotCalled
    /\ sigIn \in Readings \X Readings \X Readings
    /\ sigOut = NotCalled

\* The call get_overall_signal(daily_rsi, weekly_rsi, monthly_rsi) of
\* lines 246-304.
CallSignal ==
    /\ ~sigOut.done
    /\ sigOut' = [done |-> TRUE,
                  value |-> get_overall_signal(Float(sigIn[1]), Float(sigIn[2]),
                                               Float(sigIn[3]))]
    /\ UNCHANGED <<mainVars, rsiIn, rsiOut, sigIn>>

NextSignal == CallSignal

SpecSignal == InitSignal /\ [][NextSignal]_vars

---------------------------------------------------------------------------
(* Properties of update_data and its triggers, checked under Spec.         *)

\* Thread t takes the step that leaves position `from` of update_data.
Leaves(t, from) == pc[t] = from /\ pc'[t] # from

Range(seq) == {seq[i] : i \in 1..Len(seq)}

\* C1 (fallback): when a download of an invocation fails or comes back
\* empty while latest_data holds a Snapshot (last_updated is not the
\* sentinel), neither the failing download nor the handler changes
\* latest_data, and the handler returns True.
C1_FallbackKeepsSnapshot ==
    [][\A t \in Threads :
          /\ (pc[t] \in Range(Downloading) /\ pc'[t] = "except")
                => latest_data' = latest_data
          /\ (Leaves(t, "except") /\ latest_data.last_updated # NotUpdatedYet)
                => /\ latest_data' = latest_data
                   /\ pc'[t] = "idle"
                   /\ returned'.value = TRUE]_vars

\* An invocation has just returned True from the handler of a failed
\* download, and the Snapshot of an earlier refresh is still there.
C1_Witness ==
    /\ returned = [line |-> 527, value |-> TRUE]
    /\ latest_data.last_updated # NotUpdatedYet
    /\ latest_data \in {SnapshotOf[f, c] : f \in Frames, c \in 1..Len(TimeLine)}

\* C2 (cold start): when a download of an invocation fails or comes back
\* empty while no refresh has stored a Snapshot yet (last_updated is the
\* sentinel when the failure is handled), the invocation returns False and
\* latest_data is afterwards the initial dict, field by field.
C2_ColdStartFails ==
    [][\A t \in Threads :
          (Leaves(t, "except") /\ latest_data.last_updated = NotUpdatedYet)
             => /\ pc'[t] = "idle"
                /\ returned'.value = FALSE
                /\ latest_data' = Sentinel
                /\ read_root' = Sentinel]_vars

\* An invocation has just returned False from the handler of a failed
\* download, and a reader still gets the initial dict.
C2_Witness ==
    /\ returned = [line |-> 523, value |-> FALSE]
    /\ read_root = Sentinel

\* The days of the time line.
Days == {TimeLine[i].day : i \in 1..Len(TimeLine)}

\* The messages of kind `kind` that invocation i has sent.
SentBy(i, kind) == {m \in sent : m.inv = i /\ m.kind = kind}

\* C3: on every day, at most one invocation of update_data sends the
\* end-of-day summary.
C3_OneSummaryPerDay ==
    \A d \in Days :
        Cardinality({m \in sent : m.kind = "summary" /\ m.day = d}) <= 1

\* C4: no invocation of update_data sends both the live update and the
\* end-of-day summary.
C4_LiveAndSummaryExclusive ==
    \A i \in 1..MaxInvocations :
        SentBy(i, "live") = {} \/ SentBy(i, "summary") = {}

\* The positions of update_data from the first download up to the
\* assignment of latest_data.
InFlight == Range(Downloading) \cup {"compute", "assign"}

\* C5: at most one invocation of update_data is between the start of its
\* downloads and its assignment of latest_data.
C5_OneRefreshInFlight ==
    Cardinality({t \in Threads : pc[t] \in InFlight}) <= 1

\* The positions of update_data after the assignment of latest_data.
AfterStore ==
    {"market_check", "format_live", "send_live", "live_wait", "summary_check",
     "send_summary", "summary_wait"}

\* The dict invocation t has computed: from its own three series, with the
\* time it read at line 565.
OwnSnapshot(t) == SnapshotOf[data[t], locals[t].stamp]

\* C6: latest_data is the initial dict until the first assignment, and every
\* step that changes it is the assignment step of one invocation and
\* installs, in every field, the dict that this invocation computed from
\* its own three series and its own reading of the clock; so what read_root
\* hands out is always the initial dict or the complete result of one
\* invocation.
C6_SnapshotIsOneResult ==
    /\ latest_data = Sentinel
    /\ [][latest_data' # latest_data =>
            \E t \in Threads :
                /\ Leaves(t, "assign")
                /\ latest_data' = OwnSnapshot(t)
                /\ read_root' = latest_data']_vars

\* Two invocations that ran concurrently on different data have both
\* assigned latest_data, and it holds the complete result of one of them.
C6_Witness ==
    \E t1, t2 \in Threads :
        /\ t1 # t2
        /\ pc[t1] \in AfterStore
        /\ pc[t2] \in AfterStore
        /\ data[t1] # data[t2]
        /\ read_root = OwnSnapshot(t1)
        /\ read_root # OwnSnapshot(t2)

\* The label the classification rule gives to a stored reading of h
\* hundredths: Buy below 30.00, Sell above 70.00, Neutral otherwise.
LabelOfStored(h) ==
    IF h < 3000 THEN "Buy" ELSE IF h > 7000 THEN "Sell" ELSE "Neutral"

\* C9: in every Snapshot a refresh has written, the label of each timeframe
\* is the one the rule gives to the RSI value stored beside it.
C9_LabelMatchesStoredRsi ==
    latest_data # Sentinel =>
        /\ latest_data.daily_signal = LabelOfStored(latest_data.daily_rsi.h)
        /\ latest_data.weekly_signal = LabelOfStored(latest_data.weekly_rsi.h)
        /\ latest_data.monthly_signal = LabelOfStored(latest_data.monthly_rsi.h)

\* The market-open rule as stated: Monday to Friday, 09:15:00 to 15:30:00,
\* both ends included.
MarketOpenRule(now) ==
    /\ now.day % 7 \in 0..4
    /\ <<now.h, now.m>> \in
          {<<h, m>> \in (9..15) \X (0..59) :
              (h = 9 => m >= 15) /\ (h = 15 => m <= 30)}
    /\ (now.h = 15 /\ now.m = 30) => now.s = 0

\* A series is usable when the download returned rows.
Usable(d) == d.daily # << >> /\ d.weekly # << >> /\ d.monthly # << >>

\* C10: an invocation whose three series are usable never enters the
\* handler of a failed download; whatever the time, and unless an exception
\* takes it to the handler of lines 609-614, it replaces latest_data by the
\* dict it computed and returns True; and it has sent the live update if
\* and only if the market was open (Monday-Friday, 09:15-15:30) when it
\* asked.
C10_MarketGatesNotificationOnly ==
    [][\A t \in Threads :
          /\ (pc[t] \in Range(Downloading) /\ Usable(data'[t]))
                => pc'[t] = "compute"
          /\ (Leaves(t, "compute") /\ pc'[t] # "error") => pc'[t] = "assign"
          /\ Leaves(t, "assign") => latest_data' = OwnSnapshot(t)
          /\ (pc[t] \in AfterStore /\ pc'[t] = "idle")
                => /\ returned'.value = TRUE
                   /\ SentBy(inv[t], "live") # {}
                         <=> MarketOpenRule(TimeLine[checkedAt[t]])]_vars

\* One invocation has run while the market was open and has sent the live
\* update; another, with the market closed, has replaced latest_data all
\* the same, has sent no live update and is about to return True.
C10_Witness ==
    /\ \E m \in sent : m.kind = "live"
    /\ \E t \in Threads :
          /\ pc[t] = "summary_check"
          /\ ~MarketOpenRule(TimeLine[checkedAt[t]])
          /\ SentBy(inv[t], "live") = {}
          /\ latest_data = OwnSnapshot(t)

\* C12: the live update an invocation has formatted and sends shows, in
\* every field, the values of the dict that this invocation computed and
\* assigned.
C12_LiveMessageIsOwnSnapshot ==
    \A t \in Threads :
        Len(locals[t].message) = Len(MessageOrder) =>
            locals[t].message = LiveMessage(OwnSnapshot(t))

---------------------------------------------------------------------------
(* Properties of get_overall_signal, checked under SpecSignal.             *)

\* The score of one reading as stated: +1 below 30, -1 above 70, else 0.
StatedScore(r) ==
    IF RLess(r, R(30)) THEN 1 ELSE IF RGreater(r, R(70)) THEN -1 ELSE 0

\* Ten times the stated total 0.5*daily + 0.3*weekly + 0.2*monthly.
StatedTotal10 ==
    5 * StatedScore(sigIn[1]) + 3 * StatedScore(sigIn[2])
        + 2 * StatedScore(sigIn[3])

\* C7: for every triple of readings the label get_overall_signal returns is
\* Strong Buy iff total > 0.3, Buy iff 0 < total <= 0.3, Strong Sell iff
\* total < -0.3, Sell iff -0.3 <= total < 0 and Neutral iff total = 0;
\* (25, 75, 50) gives Buy and (20, 20, 20) gives Strong Buy.
C7_OverallSignalThresholds ==
    sigOut.done =>
        LET label == sigOut.value[1]
            total == StatedTotal10
        IN  /\ label = "Strong Buy" <=> total > 3
            /\ label = "Buy" <=> (0 < total /\ total <= 3)
            /\ label = "Strong Sell" <=> total < -3
            /\ label = "Sell" <=> (-3 <= total /\ total < 0)
            /\ label = "Neutral" <=> total = 0
            /\ sigIn = <<R(25), R(75), R(50)>> => label = "Buy"
            /\ sigIn = <<R(20), R(20), R(20)>> => label = "Strong Buy"

\* get_overall_signal(25, 75, 50) has returned Buy, with the daily and the
\* weekly clause in its reason.
C7_Witness ==
    /\ sigOut.done
    /\ sigIn = <<R(25), R(75), R(50)>>
    /\ sigOut.value[1] = "Buy"
    /\ Len(sigOut.value[3]) = 3

---------------------------------------------------------------------------
(* Properties of calculate_rsi, checked under SpecRsi.                     *)

\* C8: for a series of one element calculate_rsi returns 50 at that
\* position.
C8_SingleElementIsNeutral ==
    (rsiOut.done /\ Len(rsiIn.series) = 1) => rsiOut.value = <<Fifty>>

---------------------------------------------------------------------------
(* Properties of update_data with failing collaborators, checked under     *)
(* SpecFaults.                                                             *)

\* The messages of kind `kind` that invocation i has sent once the step is
\* taken.
SentAfter(i, kind) == {m \in sent' : m.inv = i /\ m.kind = kind}

\* The calls of bot.send_message made for the messages ms, by number.
Attempts(ms) == {m.attempt : m \in ms}

\* C11: with three usable series, an invocation in which generate_charts
\* raises goes on to the assignment unless the computation after it (lines
\* 535-561) raises an exception of its own, and the exception of
\* generate_charts is never the one the outer handler of line 609 catches;
\* the invocation then assigns to latest_data the dict it computed; one in
\* which the bot fails to deliver a message goes on as if it had been
\* delivered; bot.send_message is called once per message, failed or not;
\* and unless an exception of another statement reaches the outer handler,
\* such an invocation returns True with latest_data as it is.
C11_CollaboratorFailuresNotFatal ==
    [][\A t \in Threads :
          /\ (Leaves(t, "compute") /\ locals'[t].charts_raised)
                => /\ Usable(data[t])
                   /\ \/ pc'[t] = "assign"
                      \/ pc'[t] = "error" /\ locals'[t].e = "compute"
          /\ pc'[t] = "error" => locals'[t].e # "generate_charts"
          /\ (Leaves(t, "assign") /\ locals[t].charts_raised)
                => /\ pc'[t] = "market_check"
                   /\ latest_data' = OwnSnapshot(t)
          /\ (Leaves(t, "live_wait") /\ locals'[t].send_failed)
                => /\ pc'[t] = "summary_check"
                   /\ latest_data' = latest_data
          /\ Leaves(t, "live_wait")
                => Attempts(SentAfter(inv[t], "live")) = {1}
          /\ Leaves(t, "summary_wait")
                => /\ Attempts(SentAfter(inv[t], "summary")) = {1}
                   /\ pc'[t] = "idle"
          /\ (pc[t] \in AfterStore /\ pc'[t] = "idle")
                => /\ returned'.value = TRUE
                   /\ latest_data' = latest_data]_vars

\* generate_charts has raised in an invocation and the bot has failed to
\* deliver its live update; latest_data is the dict the invocation computed,
\* the bot has been called once, and the invocation is about to go on to
\* line 600.
C11_Witness ==
    \E t \in Threads :
        /\ pc[t] = "summary_check"
        /\ locals[t].charts_raised
        /\ locals[t].send_failed
        /\ latest_data = OwnSnapshot(t)
        /\ Cardinality(SentBy(inv[t], "live")) = 1

\* C13: an invocation that returns False, from whichever return statement,
\* has not assigned latest_data.
C13_FalseMeansUnchanged ==
    [][\A t \in Threads :
          (pc[t] # "idle" /\ pc'[t] = "idle" /\ returned'.value = FALSE)
             => /\ ~locals[t].assigned
                /\ latest_data' = latest_data]_vars


===========================================================================
